---- MODULE Spec2Model ----
(***************************************************************************)
(* Model of the todo HTTP service (src/main.go): the four todo handlers    *)
(* over one MongoDB collection, the home page handler, and the lifecycle   *)
(* of the server process (init, main, interrupt).                          *)
(*                                                                         *)
(* Strings that the code converts (object ids, their hex forms, the path   *)
(* parameter) are sequences of byte values, so that Hex, ObjectIdHex and   *)
(* the JSON forms of an id are computed and not assumed.  Titles are only  *)
(* compared with "", and stay TLA+ strings.                                *)
(***************************************************************************)
EXTENDS Integers, Sequences, FiniteSets, TLC

\* ------------------------------------------------------------------ bounds

\* Number of distinct object ids that clients and the database draw from.
NumIds == 2
\* Largest reading of the clock (time.Now) a create can take.
MaxClock == 2

\* ------------------------------------------------------- program constants

StatusProcessing == 102
StatusOK == 200
StatusCreated == 201
StatusNoContent == 204
StatusBadRequest == 400
\* Length in bytes of a bson.ObjectId; its hex form is twice as long.
ObjectIdLen == 12
\* CreatedAt of a todo value that was never assigned (the zero time.Time).
ZeroTime == 0

\* --------------------------------------------- byte strings and object ids

Space == 32

\* hex.EncodeToString's digit for a nibble: '0'..'9', 'a'..'f'.
HexDigit(n) == IF n < 10 THEN 48 + n ELSE 87 + n

\* bson.ObjectId.Hex: two lower-case hex digits for each byte.
Hex(s) ==
    [i \in 1..(2 * Len(s)) |->
        IF i % 2 = 1 THEN HexDigit(s[(i + 1) \div 2] \div 16)
                     ELSE HexDigit(s[i \div 2] % 16)]

IsHexChar(c) == c \in (48..57) \cup (97..102) \cup (65..70)

FromHexChar(c) ==
    IF c <= 57 THEN c - 48 ELSE IF c >= 97 THEN c - 87 ELSE c - 55

\* hex.DecodeString on a string already known to be hex of even length.
HexDecode(s) ==
    [i \in 1..(Len(s) \div 2) |->
        16 * FromHexChar(s[2 * i - 1]) + FromHexChar(s[2 * i])]

\* bson.IsObjectIdHex: 24 characters that decode as hex.
IsObjectIdHex(s) ==
    /\ Len(s) = 2 * ObjectIdLen
    /\ \A i \in 1..Len(s) : IsHexChar(s[i])

\* bson.ObjectIdHex: the 12 bytes a valid hex form stands for.
ObjectIdHex(s) == HexDecode(s)

\* bson.ObjectId.MarshalJSON: "%x" of the id's bytes, whatever their number.
MarshalJSON(id) == Hex(id)

\* bson.ObjectId.UnmarshalJSON on the text of the "id" member: "" (or an
\* absent member) leaves the empty id, 24 hex characters give the 12 bytes,
\* anything else is an error.
UnmarshalJSON(s) ==
    IF s = <<>> THEN [err |-> FALSE, id |-> <<>>]
    ELSE IF IsObjectIdHex(s) THEN [err |-> FALSE, id |-> HexDecode(s)]
    ELSE [err |-> TRUE, id |-> <<>>]

RECURSIVE TrimLeft(_)
TrimLeft(s) ==
    IF s # <<>> /\ Head(s) = Space THEN TrimLeft(Tail(s)) ELSE s

RECURSIVE TrimRight(_)
TrimRight(s) ==
    IF s # <<>> /\ s[Len(s)] = Space
    THEN TrimRight(SubSeq(s, 1, Len(s) - 1)) ELSE s

\* strings.TrimSpace
TrimSpace(s) == TrimRight(TrimLeft(s))

\* ASCII upper case of a hex string (a client may send either case).
ToUpper(s) == [i \in 1..Len(s) |-> IF s[i] \in 97..122 THEN s[i] - 32 ELSE s[i]]

\* The k-th object id of the pool: twelve bytes 0xAk.
MkId(k) == [i \in 1..ObjectIdLen |-> 160 + k]

IdPool == { MkId(k) : k \in 1..NumIds }

\* ----------------------------------------------------------- BSON values

\* A BSON value of type ObjectId (0x07) and one of type string (0x02): the
\* database never finds the one equal to the other.
BsonObjectId(raw) == [type |-> "objectId", v |-> raw]
BsonString(raw) == [type |-> "string", v |-> raw]

\* ---------------------------------------------------------------- storage

\* Documents are records [_id, title, completed, createdAt]; the collection
\* is the set of them (Find without a sort promises no order).

CollIds(c) == { d._id : d \in c }

Result(c, err, docs) == [coll |-> c, err |-> err, docs |-> docs]

\* Collection.Find(bson.M{}).All
FindAll(c, fail) ==
    IF fail THEN Result(c, TRUE, {}) ELSE Result(c, FALSE, c)

\* Collection.Insert(&tm): _id is left out when tm.ID is empty (omitempty)
\* and the server then assigns gen; a duplicate _id is an error.  tm itself
\* is not written back.
Insert(c, tm, gen, fail) ==
    LET id == IF tm.ID = <<>> THEN BsonObjectId(gen) ELSE BsonObjectId(tm.ID)
        doc == [_id |-> id, title |-> tm.Title, completed |-> tm.Completed,
                createdAt |-> tm.CreatedAt]
    IN  IF fail \/ id \in CollIds(c) THEN Result(c, TRUE, {})
        ELSE Result(c \cup {doc}, FALSE, {})

\* A remove that ignores its selector once it has matched.
RemoveEvery(c, id, fail) ==
    IF fail \/ id \notin CollIds(c) THEN Result(c, TRUE, {})
    ELSE Result({}, FALSE, {})

\* Collection.RemoveId(id): removes the document with that _id; ErrNotFound
\* when there is none.
RemoveId(c, id, fail) ==
    IF fail \/ id \notin CollIds(c) THEN Result(c, TRUE, {})
    ELSE Result({ d \in c : d._id # id }, FALSE, {})

\* Collection.Update(selector, update): the first document matching the
\* selector is replaced by the update document (there is no $set), keeping
\* only its _id; ErrNotFound when nothing matches.
Update(c, sel, upd, fail) ==
    IF fail \/ sel \notin CollIds(c) THEN Result(c, TRUE, {})
    ELSE Result({ IF d._id = sel
                  THEN [_id |-> d._id, title |-> upd.Title,
                        completed |-> upd.Completed, createdAt |-> ZeroTime]
                  ELSE d : d \in c }, FALSE, {})

\* ------------------------------------------------------ requests, replies

\* A request body: ok = it is JSON of the right shape; id = the text of its
\* "id" member (empty when absent); title and completed as sent.
Body(ok, id, title, completed) ==
    [ok |-> ok, id |-> id, title |-> title, completed |-> completed]

NoBody == Body(TRUE, <<>>, "", FALSE)

\* The text of an "id" member that is no object id.
BadIdText == <<122, 122>>

\* Bodies sent to POST /todo/: not JSON; JSON with an "id" that is no object
\* id; and every combination of an absent or valid id, an empty or a
\* non-empty title, and completed false or true.
CreateBodies ==
    { Body(FALSE, <<>>, "", FALSE), Body(TRUE, BadIdText, "buy milk", FALSE) } \cup
    { Body(TRUE, id, t, cpl) :
        id \in {<<>>} \cup { Hex(i) : i \in IdPool },
        t \in {"", "buy milk"}, cpl \in BOOLEAN }

\* Bodies sent to PUT /todo/{id}: not JSON; an "id" that is no object id; an
\* empty title; a new title with completed true or false.
UpdateBodies ==
    { Body(FALSE, <<>>, "", FALSE), Body(TRUE, BadIdText, "walk dog", TRUE),
      Body(TRUE, <<>>, "", TRUE), Body(TRUE, <<>>, "walk dog", TRUE),
      Body(TRUE, <<>>, "walk dog", FALSE) }

\* Path parameters that are no object id: 23 hex characters, and 24
\* characters that are not hex.
InvalidIdTexts ==
    { SubSeq(Hex(MkId(1)), 1, 2 * ObjectIdLen - 1),
      [i \in 1..(2 * ObjectIdLen) |-> 103] }

\* Path parameters: the hex form of every id, one of them also in upper
\* case between spaces, and the invalid ones.
Paths ==
    { Hex(i) : i \in IdPool } \cup
    { <<Space>> \o ToUpper(Hex(MkId(1))) \o <<Space>> } \cup
    InvalidIdTexts

\* One rnd.JSON call: the status and the members of the JSON body.
Reply(status, message, todo_id, data, error) ==
    [status |-> status, message |-> message, todo_id |-> todo_id,
     data |-> data, error |-> error]

\* The storage call a handler issues, if any.
Call(kind, sel, doc) == [kind |-> kind, sel |-> sel, doc |-> doc]

ZeroTodo == [ID |-> <<>>, Title |-> "", Completed |-> FALSE, CreatedAt |-> ZeroTime]

NoCall == Call("none", BsonObjectId(<<>>), ZeroTodo)

\* json.NewDecoder(r.Body).Decode(&t) into a todo value.
Decode(body) ==
    LET u == UnmarshalJSON(body.id)
    IN  IF ~body.ok \/ u.err THEN [err |-> TRUE, t |-> ZeroTodo]
        ELSE [err |-> FALSE,
              t |-> [ID |-> u.id, Title |-> body.title,
                     Completed |-> body.completed, CreatedAt |-> ZeroTime]]

\* ---------------------------------------------------------------- handlers

\* A request as a handler sees it: the route, the {id} path parameter, the
\* body, and what the environment answers during the request: the clock
\* reading (at), the _id the server would assign (gen), and whether the
\* database round trip fails (fail).
Req(op, path, body, at, gen, fail) ==
    [op |-> op, path |-> path, body |-> body, at |-> at, gen |-> gen,
     fail |-> fail]

NoReq == Req("none", <<>>, NoBody, ZeroTime, MkId(1), FALSE)

\* Each handler is given in two halves around its storage call: Before is
\* the code up to the call (the replies written so far, and the call, or
\* NoCall when the handler has returned), After the code that follows it.
Step(resp, call) == [resp |-> resp, call |-> call]

fetchTodoBefore(req) == Step(<<>>, Call("Find", BsonObjectId(<<>>), ZeroTodo))

\* The todo value fetchTodo builds from a stored document, as rnd.JSON
\* renders it: ID is ObjectId(t.ID.Hex()), marshalled by MarshalJSON.
TodoJSON(d) ==
    [id |-> MarshalJSON(Hex(d._id.v)), title |-> d.title,
     completed |-> d.completed, createdAt |-> d.createdAt]

fetchTodoAfter(req, call, res) ==
    IF res.err
    THEN << Reply(StatusProcessing, "failed to fetch todo", <<>>, {}, "storage") >>
    ELSE << Reply(StatusOK, "", <<>>, { TodoJSON(d) : d \in res.docs }, "") >>

createTodoBefore(req) ==
    LET d == Decode(req.body)
        early == IF d.t.Title = ""
                 THEN << Reply(StatusBadRequest, "title required", <<>>, {}, "") >>
                 ELSE <<>>
        tm == [ID |-> d.t.ID, Title |-> d.t.Title, Completed |-> FALSE,
               CreatedAt |-> req.at]
    IN  IF d.err
        THEN Step(<< Reply(StatusProcessing, "", <<>>, {}, "decode") >>, NoCall)
        ELSE Step(early, Call("Insert", BsonObjectId(<<>>), tm))

createTodoAfter(req, call, res) ==
    IF res.err
    THEN << Reply(StatusProcessing, "failed to save todo", <<>>, {}, "storage") >>
    ELSE << Reply(StatusCreated, "todo created successfully",
                  Hex(call.doc.ID), {}, "") >>

\* deleteTodo with the selector of updateTodo: the id passed as a string.
deleteTodoBeforeAsString(req) ==
    LET id == TrimSpace(req.path)
    IN  IF ~IsObjectIdHex(id)
        THEN Step(<< Reply(StatusProcessing, "invalid id", <<>>, {}, "") >>, NoCall)
        ELSE Step(<<>>, Call("RemoveId", BsonString(ObjectIdHex(id)), ZeroTodo))

deleteTodoBefore(req) ==
    LET id == TrimSpace(req.path)
    IN  IF ~IsObjectIdHex(id)
        THEN Step(<< Reply(StatusProcessing, "invalid id", <<>>, {}, "") >>, NoCall)
        ELSE Step(<<>>, Call("RemoveId", BsonObjectId(ObjectIdHex(id)), ZeroTodo))

deleteTodoAfter(req, call, res) ==
    IF res.err
    THEN << Reply(StatusProcessing, "failed delete todo", <<>>, {}, "") >>
    ELSE << Reply(StatusNoContent, "delete successfully", <<>>, {}, "") >>

updateTodoBefore(req) ==
    LET id == TrimSpace(req.path)
        d == Decode(req.body)
    IN  IF ~IsObjectIdHex(id)
        THEN Step(<< Reply(StatusBadRequest, "invalid id", <<>>, {}, "") >>, NoCall)
        ELSE IF d.err
        THEN Step(<< Reply(StatusProcessing, "", <<>>, {}, "decode") >>, NoCall)
        ELSE IF d.t.Title = ""
        THEN Step(<< Reply(StatusProcessing, "todo required", <<>>, {}, "") >>, NoCall)
        ELSE Step(<<>>, Call("Update", BsonString(ObjectIdHex(id)),
                             [ZeroTodo EXCEPT !.Title = d.t.Title,
                                              !.Completed = d.t.Completed]))

updateTodoAfter(req, call, res) ==
    IF res.err
    THEN << Reply(StatusOK, "failed update todo", <<>>, {}, "storage") >>
    ELSE <<>>

Before(req) ==
    CASE req.op = "fetch" -> fetchTodoBefore(req)
      [] req.op = "create" -> createTodoBefore(req)
      [] req.op = "delete" -> deleteTodoBefore(req)
      [] req.op = "update" -> updateTodoBefore(req)

After(req, call, res) ==
    CASE req.op = "fetch" -> fetchTodoAfter(req, call, res)
      [] req.op = "create" -> createTodoAfter(req, call, res)
      [] req.op = "delete" -> deleteTodoAfter(req, call, res)
      [] req.op = "update" -> updateTodoAfter(req, call, res)

\* The database executing one call on collection c.
Exec(c, call, gen, fail) ==
    CASE call.kind = "Find" -> FindAll(c, fail)
      [] call.kind = "Insert" -> Insert(c, call.doc, gen, fail)
      [] call.kind = "RemoveId" -> RemoveId(c, call.sel, fail)
      [] call.kind = "Update" -> Update(c, call.sel, call.doc, fail)

\* A whole handler run on collection c: the collection it leaves, every
\* reply it wrote in order, how many of them before the storage call, and
\* the storage calls it issued.
Handle(c, req) ==
    LET b == Before(req)
        res == Exec(c, b.call, req.gen, req.fail)
    IN  IF b.call.kind = "none"
        THEN [coll |-> c, resp |-> b.resp, early |-> Len(b.resp), calls |-> <<>>,
              err |-> FALSE]
        ELSE [coll |-> res.coll, resp |-> b.resp \o After(req, b.call, res),
              early |-> Len(b.resp), calls |-> << b.call >>, err |-> res.err]

\* What a List issued now, with the database answering, shows.
Listed(c) == Handle(c, Req("fetch", <<>>, NoBody, ZeroTime, MkId(1), FALSE)).resp[1].data

\* ------------------------------------------------------------------ state

VARIABLES
    coll,         \* the documents of collection "todo"
    now,          \* the last reading of the clock
    last,         \* the request handled last and what its handler did
    proc,         \* the process: "init", "main" or "exited"
    srv,          \* the ListenAndServe goroutine: "off", "listening", "failed"
    stopChannel,  \* number of signals buffered in stopChannel (capacity 1)
    exit,         \* how the process ended, "none" while it runs
    shutdown,     \* server.Shutdown has been invoked
    reqs, pc, out \* two requests in flight (SpecConc): request, position, replies

vars == << coll, now, last, proc, srv, stopChannel, exit, shutdown, reqs, pc, out >>

Procs == {1, 2}

Last(req, pre, h) ==
    [req |-> req, pre |-> pre, resp |-> h.resp, early |-> h.early,
     calls |-> h.calls, err |-> h.err]

NoRun == [coll |-> {}, resp |-> <<>>, early |-> 0, calls |-> <<>>, err |-> FALSE]

Init ==
    /\ coll = {}
    /\ now = ZeroTime
    /\ last = Last(NoReq, {}, NoRun)
    /\ proc = "init"
    /\ srv = "off"
    /\ stopChannel = 0
    /\ exit = "none"
    /\ shutdown = FALSE
    /\ reqs = [p \in Procs |-> NoReq]
    /\ pc = [p \in Procs |-> "done"]
    /\ out = [p \in Procs |-> <<>>]

conc == << reqs, pc, out >>

\* ---------------------------------------------------------------- process

\* checkErr: log.Fatal ends the process when err is not nil.
checkErr(failed, cause) ==
    IF failed THEN [proc |-> "exited", exit |-> cause]
    ELSE [proc |-> proc, exit |-> exit]

\* init(): dial the database; checkErr ends the process when that fails.
init ==
    /\ proc = "init"
    /\ \E dialFails \in BOOLEAN :
         LET r == checkErr(dialFails, "fatal: dial")
         IN  /\ proc' = (IF dialFails THEN r.proc ELSE "main")
             /\ exit' = r.exit
    /\ UNCHANGED << coll, now, last, srv, stopChannel, shutdown, conc >>

\* main up to the receive: the goroutine calls ListenAndServe, which either
\* serves or returns an error that is only logged.
mainListen ==
    /\ proc = "main"
    /\ srv = "off"
    /\ \E bound \in BOOLEAN : srv' = (IF bound THEN "listening" ELSE "failed")
    /\ UNCHANGED << coll, now, last, proc, stopChannel, exit, shutdown, conc >>

\* An interrupt signal reaches the process; signal.Notify drops it when the
\* channel is full.
Interrupt ==
    /\ proc = "main"
    /\ srv # "off"
    /\ stopChannel = 0
    /\ stopChannel' = 1
    /\ UNCHANGED << coll, now, last, proc, srv, exit, shutdown, conc >>

\* What log.Panicln does after logging: it panics.
LogPanicln == "panic"

\* main from the receive on: log.Panicln panics, so the process ends there
\* and neither server.Shutdown nor the last log line is reached.
mainStop ==
    /\ proc = "main"
    /\ stopChannel = 1
    /\ stopChannel' = 0
    /\ proc' = "exited"
    /\ IF LogPanicln = "panic"
       THEN exit' = "panic" /\ shutdown' = shutdown
       ELSE exit' = "returned" /\ shutdown' = TRUE
    /\ UNCHANGED << coll, now, last, srv, conc >>

Serving == proc = "main" /\ srv = "listening"

\* homeHandlers: render the template; checkErr ends the process when the
\* renderer returns an error.
homeHandlers ==
    /\ Serving
    /\ \E renderFails \in BOOLEAN :
         LET r == checkErr(renderFails, "fatal: render")
         IN  /\ proc' = r.proc
             /\ exit' = r.exit
             /\ last' = Last(Req("home", <<>>, NoBody, ZeroTime, MkId(1), renderFails),
                             coll,
                             [NoRun EXCEPT !.resp =
                                 IF renderFails THEN <<>>
                                 ELSE << Reply(StatusOK, "home", <<>>, {}, "") >>])
    /\ UNCHANGED << coll, now, srv, stopChannel, shutdown, conc >>

\* ----------------------------------------------------------- todo requests

\* An answer of the environment that a handler never asks for is left at its
\* default: fail when the handler issues no storage call.
Asked(req) == Before(req).call.kind = "none" => ~req.fail

Run(req) ==
    LET h == Handle(coll, req)
    IN  /\ Asked(req)
        /\ coll' = h.coll
        /\ last' = Last(req, coll, h)
        /\ UNCHANGED << proc, srv, stopChannel, exit, shutdown, conc >>

fetchTodo ==
    /\ Serving
    /\ \E fail \in BOOLEAN :
         Run(Req("fetch", <<>>, NoBody, ZeroTime, MkId(1), fail))
    /\ UNCHANGED now

\* The ids the server can assign: those no stored document has.
FreshIds(c) == { g \in IdPool : BsonObjectId(g) \notin CollIds(c) }

\* The _id the server assigns to the document of this body: a fresh one when
\* the document arrives without _id, none (the default) otherwise.
Assigned(c, body) ==
    LET d == Decode(body)
    IN  IF ~d.err /\ d.t.ID = <<>> THEN FreshIds(c) ELSE {MkId(1)}

createTodo ==
    /\ Serving
    /\ now < MaxClock
    /\ now' = now + 1
    /\ \E body \in CreateBodies, fail \in BOOLEAN :
       \E gen \in Assigned(coll, body) :
         Run(Req("create", <<>>, body, now', gen, fail))

deleteTodo ==
    /\ Serving
    /\ \E path \in Paths, fail \in BOOLEAN :
         Run(Req("delete", path, NoBody, ZeroTime, MkId(1), fail))
    /\ UNCHANGED now

updateTodo ==
    /\ Serving
    /\ \E path \in Paths, body \in UpdateBodies, fail \in BOOLEAN :
         Run(Req("update", path, body, ZeroTime, MkId(1), fail))
    /\ UNCHANGED now

Next ==
    \/ init
    \/ mainListen
    \/ Interrupt
    \/ mainStop
    \/ homeHandlers
    \/ fetchTodo
    \/ createTodo
    \/ deleteTodo
    \/ updateTodo

Spec == Init /\ [][Next]_vars

\* ------------------------------------------------- two concurrent requests

\* net/http runs each request in its own goroutine.  Two handlers run side
\* by side; each runs its code before the storage call, then the database
\* executes the call (one document operation, atomic in the database), and
\* the handler writes its last reply.  No handler takes a lock.

\* A stored document as a successful create leaves it.
StoredDoc(k) ==
    [_id |-> BsonObjectId(MkId(k)), title |-> "buy milk", completed |-> FALSE,
     createdAt |-> k]

ConcColls == SUBSET { StoredDoc(k) : k \in 1..NumIds }

\* The id a request is addressed to: the path id of an update or delete, the
\* _id of the document a create inserts.
Target(req) ==
    IF req.op = "create"
    THEN (IF Decode(req.body).t.ID = <<>> THEN req.gen ELSE Decode(req.body).t.ID)
    ELSE ObjectIdHex(TrimSpace(req.path))

ValidPaths == { q \in Paths : IsObjectIdHex(TrimSpace(q)) }

\* Create, update and delete requests that name an id, with the answers of
\* the environment that their handlers ask for; a create by process p reads
\* the clock at NumIds + p.
ConcReqs(c, p) ==
    { r \in
        { Req("create", <<>>, Body(TRUE, id, t, TRUE), NumIds + p, gen, fail) :
            id \in {<<>>} \cup { Hex(i) : i \in IdPool }, t \in {"", "buy milk"},
            gen \in IdPool, fail \in BOOLEAN }
        \cup
        { Req("update", path, body, ZeroTime, MkId(1), fail) :
            path \in ValidPaths,
            body \in { Body(FALSE, <<>>, "", FALSE), Body(TRUE, <<>>, "", TRUE),
                       Body(TRUE, <<>>, "walk dog", TRUE) },
            fail \in BOOLEAN }
        \cup
        { Req("delete", path, NoBody, ZeroTime, MkId(1), fail) :
            path \in ValidPaths, fail \in BOOLEAN } :
      /\ Asked(r)
      /\ r.op = "create" => r.gen \in Assigned(c, r.body) }

InitConc ==
    /\ coll \in ConcColls
    /\ now = NumIds
    /\ last = Last(NoReq, coll, NoRun)
    /\ proc = "main"
    /\ srv = "listening"
    /\ stopChannel = 0
    /\ exit = "none"
    /\ shutdown = FALSE
    /\ \E r1 \in ConcReqs(coll, 1), r2 \in ConcReqs(coll, 2) :
         /\ Target(r1) # Target(r2)
         /\ reqs = [p \in Procs |-> IF p = 1 THEN r1 ELSE r2]
    /\ pc = [p \in Procs |-> "before"]
    /\ out = [p \in Procs |-> <<>>]

\* Handler p runs up to its storage call, or to its return.
handlerBefore(p) ==
    /\ pc[p] = "before"
    /\ LET b == Before(reqs[p])
       IN  /\ out' = [out EXCEPT ![p] = b.resp]
           /\ pc' = [pc EXCEPT ![p] = IF b.call.kind = "none" THEN "done" ELSE "call"]
    /\ UNCHANGED << coll, now, last, proc, srv, stopChannel, exit, shutdown, reqs >>

\* The database executes handler p's call; the handler writes what follows.
handlerCall(p) ==
    /\ pc[p] = "call"
    /\ LET call == Before(reqs[p]).call
           res == Exec(coll, call, reqs[p].gen, reqs[p].fail)
       IN  /\ coll' = res.coll
           /\ out' = [out EXCEPT ![p] = @ \o After(reqs[p], call, res)]
           /\ pc' = [pc EXCEPT ![p] = "done"]
    /\ UNCHANGED << now, last, proc, srv, stopChannel, exit, shutdown, reqs >>

NextConc ==
    \/ \E p \in Procs : handlerBefore(p)
    \/ \E p \in Procs : handlerCall(p)

SpecConc == InitConc /\ [][NextConc]_vars

\* The two requests handled one after the other, ra first.
InTurn(c, ra, rb) ==
    LET h1 == Handle(c, ra)
        h2 == Handle(h1.coll, rb)
    IN  [coll |-> h2.coll, first |-> h1.resp, second |-> h2.resp]

\* ----------------------------------------------------------------- claims

TodoOps == {"fetch", "create", "update", "delete"}

\* The last reply the handler of the last request wrote.
FinalReply == last.resp[Len(last.resp)]

\* The last request's body decoded without error.
WellFormed == ~Decode(last.req.body).err

\* The last request's path parameter is an object id in hex.
ValidPath == IsObjectIdHex(TrimSpace(last.req.path))

\* The _id the last request's path parameter names.
PathId == BsonObjectId(ObjectIdHex(TrimSpace(last.req.path)))

\* The last request's storage call was made and succeeded.
CallSucceeded == last.calls # <<>> /\ ~last.err

\* C1: after a create with a well-formed body and a non-empty title whose
\* insert succeeded, the reply is 201 with a non-empty todo_id, and a list
\* issued then holds an item with that id, the submitted title and
\* completed = false.
C1_CreatedItemIsListed ==
    (last.req.op = "create" /\ WellFormed /\ last.req.body.title # ""
        /\ CallSucceeded)
    => /\ FinalReply.status = StatusCreated
       /\ FinalReply.todo_id # <<>>
       /\ \E t \in Listed(coll) :
            /\ t.id = FinalReply.todo_id
            /\ t.title = last.req.body.title
            /\ t.completed = FALSE

\* C2: after an update addressed to a stored item's id, with a well-formed
\* body, a new non-empty title and completed = true (and the database
\* answering), a list shows that item with the new title, completed = true
\* and its old id and createdAt, and every other item as before.
C2_UpdateChangesItem ==
    (last.req.op = "update" /\ ValidPath /\ WellFormed /\ ~last.req.fail
        /\ PathId \in CollIds(last.pre)
        /\ last.req.body.title # "" /\ last.req.body.completed
        /\ \A d \in last.pre : d._id = PathId => d.title # last.req.body.title)
    => Listed(coll) =
         { IF d._id = PathId
           THEN [TodoJSON(d) EXCEPT !.title = last.req.body.title,
                                    !.completed = TRUE]
           ELSE TodoJSON(d) : d \in last.pre }

\* C3: a delete addressed to the id of a stored item removes exactly that
\* item when the database carries it out (reply 204): a list issued then
\* shows every other item unchanged and not that one; when the database call
\* fails the reply is 102 and nothing is removed.
C3_DeleteRemovesExactlyThatItem ==
    (last.req.op = "delete" /\ ValidPath /\ PathId \in CollIds(last.pre))
    => IF last.req.fail
       THEN /\ coll = last.pre
            /\ FinalReply.status = StatusProcessing
       ELSE /\ FinalReply.status = StatusNoContent
            /\ Listed(coll) = { TodoJSON(d) : d \in { e \in last.pre : e._id # PathId } }
            /\ \A t \in Listed(coll) : t.id # MarshalJSON(Hex(PathId.v))
            /\ Cardinality(coll) = Cardinality(last.pre) - 1

\* A delete removed one of two stored items.
C3_Witness ==
    /\ last.req.op = "delete"
    /\ ~last.req.fail
    /\ Cardinality(last.pre) = 2
    /\ PathId \in CollIds(last.pre)
    /\ FinalReply.status = StatusNoContent

\* C4: every stored item has a non-empty title, and a create with an empty
\* title stores nothing.
C4_StoredTitlesNonEmpty ==
    /\ \A d \in coll : d.title # ""
    /\ (last.req.op = "create" /\ WellFormed /\ last.req.body.title = "")
       => coll = last.pre

\* C5: an update or delete whose path id is not an object id in hex is
\* answered with a 4xx status, issues no storage call and leaves the
\* collection as it was.
C5_InvalidIdIsClientError ==
    (last.req.op \in {"update", "delete"} /\ ~ValidPath)
    => /\ last.resp # <<>>
       /\ \A i \in 1..Len(last.resp) : last.resp[i].status \in 400..499
       /\ last.calls = <<>>
       /\ coll = last.pre

\* C6: the item a successful create stores has completed = false and an id
\* the database assigned, not the id the body carried.
C6_CreateIgnoresClientIdAndCompleted ==
    (last.req.op = "create" /\ CallSucceeded)
    => \A d \in coll \ last.pre :
         /\ d.completed = FALSE
         /\ last.req.body.id # <<>> => d._id.v # UnmarshalJSON(last.req.body.id).id

\* C7: when the server was serving, main has taken the interrupt from
\* stopChannel and the process has ended, server.Shutdown was invoked and
\* main returned normally.
C7_InterruptLeadsToShutdown ==
    (proc = "exited" /\ srv = "listening"
        /\ exit \notin {"fatal: dial", "fatal: render"})
    => (shutdown /\ exit = "returned")

\* C8: the process ends only by the fatal error of init (the dial) or by
\* main ending after an interrupt; handling a request never ends it.
C8_NoRequestEndsTheProcess ==
    proc = "exited" => exit \in {"fatal: dial", "panic", "returned"}

\* C9: a todo handler writes at most one reply, exactly one unless it is an
\* update that succeeded, and issues no storage call after a reply.
C9_ExactlyOneReply ==
    last.req.op \in TodoOps
    => /\ Len(last.resp) <= 1
       /\ Len(last.resp) = 1 \/ (last.req.op = "update" /\ CallSucceeded)
       /\ last.early > 0 => last.calls = <<>>

AllDone == \A p \in Procs : pc[p] = "done"

\* C10: two concurrent create, update or delete requests addressed to
\* different ids, each with its own clock reading and database answers,
\* leave the collection and get the replies that handling them one after
\* the other leaves and gets, in either order, whatever the order of their
\* steps; each issues at most one storage call.
C10_DifferentIdsAreIndependent ==
    AllDone
    => LET a == InTurn(last.pre, reqs[1], reqs[2])
           b == InTurn(last.pre, reqs[2], reqs[1])
       IN  /\ coll = a.coll /\ out[1] = a.first /\ out[2] = a.second
           /\ coll = b.coll /\ out[2] = b.first /\ out[1] = b.second
           /\ \A p \in Procs : Len(Handle(last.pre, reqs[p]).calls) <= 1

\* A create and a delete ran side by side and both took effect.
C10_Witness ==
    /\ AllDone
    /\ reqs[1].op = "create" /\ out[1] # <<>> /\ out[1][Len(out[1])].status = StatusCreated
    /\ reqs[2].op = "delete" /\ out[2] # <<>> /\ out[2][1].status = StatusNoContent
    /\ Cardinality(last.pre) = 1
    /\ Cardinality(coll) = 1
    /\ coll # last.pre

====
